---- MODULE Spec2Model ----
(***************************************************************************)
(* Verification model of the desktop UI automation library:                *)
(*   - window-handle backend  (automate/impl/win32.py, both revisions)     *)
(*   - accessibility backend  (automate/impl/uia.py)                       *)
(*   - OS binding layer       (automate/winterop/user32.py, kernel32.py)   *)
(*                                                                         *)
(* The state machines below share one set of variables:                    *)
(*   SpecMatch : Condition matching and materialization                    *)
(*   SpecFind  : the recursive search family                               *)
(*   SpecFocus : Window.is_focused / Window.focus / Window._focus          *)
(*   SpecTree  : Element.tree / Context.tree                               *)
(*   SpecEnum  : EnumWindows / EnumChildWindows callbacks, Window(hwnd),   *)
(*               Context.windows / find_window / window                    *)
(*   SpecRect  : Rect.center                                               *)
(*   SpecSearch: find_first / find_all / ifind_all step by step, on handle *)
(*               graphs in which children() may list an ancestor           *)
(*   SpecUia   : the UIA singleton, TRUE_CONDITION and Context exit        *)
(***************************************************************************)
EXTENDS Integers, Sequences, FiniteSets, TLC

(* ------------------------------ bounds --------------------------------- *)

\* number of nodes below the start of the handle tree
MaxNodes == 3

\* largest max_depth argument tried by a tree walk
MaxDepthArg == 2

\* number of top-level windows the OS enumerates
MaxTop == 2

\* number of handles an enumeration hands to its callback
MaxCand == 3

\* largest absolute value of a screen coordinate
MaxCoord == 3
MaxUiaOps == 5

(* ----------------------------- variables ------------------------------- *)

VARIABLES
    par,        \* handle tree: par[n] is the parent handle of n (n >= 1)
    rev,        \* TRUE when the OS enumerates siblings in descending order
    attr,       \* attr[n]: attributes the OS reports for handle n
    cond,       \* the Condition the caller built
    res,        \* result of the last search / match operation
    fenv,       \* OS state seen by the focus methods
    fpc,        \* position of the running focus method
    fst,        \* locals and bookkeeping of the running focus method
    calls,      \* OS mutation calls issued by the focus method, in order
    wcfg,       \* arguments of the running tree walk
    wpc,        \* position of the tree walk
    stack,      \* call stack of Element.tree
    counters,   \* per-type occurrence counters of the walk
    out,        \* observable events of the walk, in order
    werr,       \* exception that ended the walk, "none" otherwise
    eenv,       \* handles the OS hands to an enumeration callback, in order
    epc,        \* position of the running enumeration
    est,        \* locals and outcome of the running enumeration
    sloop,      \* <<n, m>> when children() of handle n also lists m, <<>> otherwise
    spc,        \* position of the running stepwise search
    sstack,     \* call stack of the running search
    uia         \* the accessibility engine singleton and what was made from it

findVars == <<par, rev, attr, cond, res>>

focusVars == <<fenv, fpc, fst, calls>>

treeVars == <<wcfg, wpc, stack, counters, out, werr>>

enumVars == <<eenv, epc, est>>

searchVars == <<sloop, spc, sstack>>

vars == <<par, rev, attr, cond, res, fenv, fpc, fst, calls, wcfg, wpc, stack, counters, out, werr, eenv, epc, est,
          sloop, spc, sstack, uia>>

(* ------------------------- Python value model -------------------------- *)

\* None for an int-typed field
None == -1

\* None for a str-typed field
NoStr == "<None>"

\* characters of window titles; upper case letters map to lower case ones
Chars == {"a", "b", "A", "B"}

LowerChar(c) == CASE c = "A" -> "a" [] c = "B" -> "b" [] OTHER -> c

\* str.lower()
Lower(s) == [i \in 1..Len(s) |-> LowerChar(s[i])]

\* re.match(pattern, s) for a pattern made of literal characters:
\* the pattern must match at the start of s, case-sensitively
ReMatch(p, s) == Len(p) <= Len(s) /\ \A i \in 1..Len(p) : s[i] = p[i]

NoTitle == [kind |-> "none", v |-> <<>>]

StrTitle(s) == [kind |-> "str", v |-> s]

ReTitle(p) == [kind |-> "re", v |-> p]

\* Python truthiness of the four Condition fields
TruthyInt(v) == v # None /\ v # 0

TruthyStr(v) == v # NoStr /\ v # ""

TruthyTitle(t) == t.kind = "re" \/ (t.kind = "str" /\ t.v # <<>>)

(* --------------------------- Condition.matches ------------------------- *)

\* one refinement after the other, each assignment overwriting `result`
SatStep(flag, test, result) == IF flag THEN test ELSE result

SatTitle(c, e) == IF c.title.kind = "str" THEN Lower(c.title.v) = Lower(e.title) ELSE ReMatch(c.title.v, e.title)

Satisfies(c, e) ==
    LET r0 == FALSE
        r1 == SatStep(TruthyInt(c.pid), c.pid = e.pid, r0)
        r2 == SatStep(TruthyInt(c.control_id), c.control_id = e.control_id, r1)
        r3 == SatStep(TruthyStr(c.class_name), c.class_name = e.class_name, r2)
        r4 == SatStep(TruthyTitle(c.title), SatTitle(c, e), r3)
    IN r4

\* TrueCondition overrides matches to return True
Matches(c, e) == IF c.sentinel THEN TRUE ELSE Satisfies(c, e)

(* ----------------------- materializing a Condition --------------------- *)

\* number of refinement calls chained on a Condition() of the accessibility
\* backend; each call appends one native condition, whatever its value
Chained(c) ==
    (IF c.pid # None THEN 1 ELSE 0) + (IF c.control_id # None THEN 1 ELSE 0)
    + (IF c.class_name # NoStr THEN 1 ELSE 0) + (IF c.title.kind # "none" THEN 1 ELSE 0)

\* not pid and not control_type and not class_name and not title
AllFalsy(c) == ~TruthyInt(c.pid) /\ ~TruthyInt(c.control_id) /\ ~TruthyStr(c.class_name) /\ ~TruthyTitle(c.title)

\* Condition.native of the accessibility backend
UiaNative(c) ==
    IF c.sentinel THEN "native"
    ELSE IF Chained(c) = 0 THEN "ConditionNotCreatedError"
    ELSE "native"

\* UIAContext.create_condition(...) of the old accessibility backend
UiaCreateCondition(c) == IF AllFalsy(c) THEN "ValueError" ELSE "condition"

\* Condition(ctx).condition / TrueCondition(ctx).condition of the old
\* accessibility backend
UiaOldCondition(c) == IF c.sentinel THEN "native" ELSE IF Chained(c) = 0 THEN "None" ELSE "native"

\* Win32Context.create_condition(...) of the old window backend
Win32CreateCondition(c) == IF AllFalsy(c) THEN "ValueError" ELSE "condition"

\* Condition(...) of the window backend: a plain tuple, nothing to materialize
Win32Condition(c) == "condition"

\* Condition(hr).condition of the first accessibility prototype
MainCondition(c) == IF Chained(c) = 0 THEN "ConditionNotCreatedError" ELSE "native"

\* Automate.create_condition(...) of the first accessibility prototype
MainCreateCondition(c) == IF AllFalsy(c) THEN "ValueError" ELSE "condition"

\* construction paths; the sentinel exists on the first three only
Paths == {"uia.native", "uia_old.condition", "win32_old.matches", "uia_old.create_condition",
          "win32_old.create_condition", "win32.Condition", "main.condition", "main.create_condition"}

Materialize(path, c) ==
    CASE path = "uia.native" -> UiaNative(c)
      [] path = "uia_old.condition" -> UiaOldCondition(c)
      [] path = "win32_old.matches" -> "condition"
      [] path = "uia_old.create_condition" -> UiaCreateCondition(c)
      [] path = "win32_old.create_condition" -> Win32CreateCondition(c)
      [] path = "win32.Condition" -> Win32Condition(c)
      [] path = "main.condition" -> MainCondition(c)
      [] path = "main.create_condition" -> MainCreateCondition(c)

(* ------------------------------ handle tree ---------------------------- *)

Nodes == 0..MaxNodes

Root == 0

\* parent functions of all trees over Nodes rooted at Root
TreeShapes == {p \in [1..MaxNodes -> Nodes] : \A n \in 1..MaxNodes : p[n] < n}

\* handles whose parent is n
ChildSet(n) == {m \in 1..MaxNodes : par[m] = n}

RECURSIVE SortedSeq(_)
\* the members of S in ascending order
SortedSeq(S) == IF S = {} THEN <<>> ELSE LET m == CHOOSE x \in S : \A y \in S : x <= y IN <<m>> \o SortedSeq(S \ {m})

Reverse(s) == [i \in 1..Len(s) |-> s[Len(s) + 1 - i]]

\* Element.children(): the snapshot EnumChildWindows delivers to the
\* callback, every candidate appended in enumeration order
Children(n) == IF rev THEN Reverse(SortedSeq(ChildSet(n))) ELSE SortedSeq(ChildSet(n))

(* ------------------------- find_first / find_all ----------------------- *)

RECURSIVE IFindAllPost(_, _)
IFindAllPost(element, c) ==
    LET kids == Children(element)
        RECURSIVE Loop(_)
        Loop(i) == IF i > Len(kids) THEN <<>>
                   ELSE LET child == kids[i]
                        IN IFindAllPost(child, c)
                           \o (IF Matches(c, attr[child]) THEN <<child>> ELSE <<>>)
                           \o Loop(i + 1)
    IN Loop(1)

RECURSIVE IFindAll(_, _)
\* generator: for each child, yield it when it satisfies the condition,
\* then yield from the child's own ifind_all
IFindAll(element, c) ==
    LET kids == Children(element)
        RECURSIVE Loop(_)
        Loop(i) == IF i > Len(kids) THEN <<>>
                   ELSE LET child == kids[i]
                        IN (IF Matches(c, attr[child]) THEN <<child>> ELSE <<>>)
                           \o IFindAll(child, c) \o Loop(i + 1)
    IN Loop(1)

\* find_all = list(ifind_all(...))
FindAll(element, c) == IFindAll(element, c)

RECURSIVE FindFirstPost(_, _)
FindFirstPost(element, c) ==
    LET kids == Children(element)
        RECURSIVE Loop(_)
        Loop(i) == IF i > Len(kids) THEN None
                   ELSE LET child == kids[i]
                            found == FindFirstPost(child, c)
                        IN IF found # None THEN found
                           ELSE IF Matches(c, attr[child]) THEN child
                           ELSE Loop(i + 1)
    IN Loop(1)

RECURSIVE FindFirst(_, _)
\* for each child: return it when it satisfies the condition, else return
\* what the recursive search below it found, else go on; None at the end
FindFirst(element, c) ==
    LET kids == Children(element)
        RECURSIVE Loop(_)
        Loop(i) == IF i > Len(kids) THEN None
                   ELSE LET child == kids[i]
                        IN IF Matches(c, attr[child]) THEN child
                           ELSE LET found == FindFirst(child, c)
                                IN IF found # None THEN found ELSE Loop(i + 1)
    IN Loop(1)

(* ---------------------- inputs of the search machine ------------------- *)

\* attribute snapshots of the handles of the tree
TreeElems ==
    { [pid |-> 1, control_id |-> 0, class_name |-> "Button", title |-> <<"a">>],
      [pid |-> 2, control_id |-> 5, class_name |-> "Edit", title |-> <<"A", "b">>] }

\* attribute snapshots tried by a single match
Elems ==
    [pid : {0, 1, 2}, control_id : {0, 5}, class_name : {"", "Button", "Edit"},
     title : {<<>>, <<"a">>, <<"A">>, <<"A", "b">>}]

Titles == {NoTitle, StrTitle(<<>>), StrTitle(<<"a">>), StrTitle(<<"a", "B">>), ReTitle(<<"A">>), ReTitle(<<>>)}

\* Condition(pid, control_id, class_name, title)
Conds ==
    [pid : {None, 0, 1, 2}, control_id : {None, 0, 5}, class_name : {NoStr, "", "Button"},
     title : Titles, sentinel : {FALSE}]

EmptyCond == [pid |-> None, control_id |-> None, class_name |-> NoStr, title |-> NoTitle, sentinel |-> FALSE]

\* TrueCondition(): a Condition with no refinement whose matches is overridden
TrueCondition == [EmptyCond EXCEPT !.sentinel = TRUE]

\* conditions tried by the tree searches
FindConds ==
    { TrueCondition, EmptyCond,
      [EmptyCond EXCEPT !.class_name = "Button"],
      [EmptyCond EXCEPT !.pid = 2],
      [EmptyCond EXCEPT !.pid = 1, !.title = StrTitle(<<"a", "B">>)],
      [EmptyCond EXCEPT !.title = ReTitle(<<"A">>)],
      [EmptyCond EXCEPT !.control_id = 5, !.class_name = "Button"] }

NoRes == [op |-> "none", start |-> None, elem |-> attr[Root], val |-> <<>>]

(* -------------------- defaults of the other machines ------------------- *)

FocusIdle ==
    /\ fenv = [fg |-> 0, tops |-> <<>>, attached |-> FALSE, topmost |-> FALSE]
    /\ fpc = "idle"
    /\ fst = [m |-> "none", ver |-> "new", pre |-> "false", fgtid |-> 0, fail |-> "none", err |-> FALSE, gentle |-> 0,
              iconic |-> FALSE, zoomed |-> FALSE]
    /\ calls = <<>>

TypeKeys == {e.class_name : e \in TreeElems}

\* counters = {} read through counters.get(key, 0)
ZeroCounters == [k \in TypeKeys |-> 0]

NoWalk == [entry |-> "none", backend |-> "win32", elem |-> TRUE, real |-> {}, bounded |-> FALSE, max_depth |-> 0, draw |-> FALSE, dur |-> "75"]

TreeIdle ==
    /\ wcfg = NoWalk
    /\ wpc = "idle"
    /\ stack = <<>>
    /\ counters = ZeroCounters
    /\ out = <<>>
    /\ werr = "none"

\* no enumeration running
NoEnum == [op |-> "none", ver |-> "new", c |-> EmptyCond, h |-> "none", i |-> 1, acc |-> <<>>, found |-> 0,
           seen |-> <<>>, outcome |-> "none", val |-> <<>>]

EnumIdle ==
    /\ eenv = <<>>
    /\ epc = "idle"
    /\ est = NoEnum

\* no stepwise search running, no handle listed twice
SearchIdle ==
    /\ sloop = <<>>
    /\ spc = "idle"
    /\ sstack = <<>>

\* the module of the accessibility backend is not imported
NoUia == [loaded |-> FALSE, inst |-> 0, made |-> 0, true_of |-> 0, log |-> <<>>]

UiaIdle == uia = NoUia

FindIdle ==
    /\ par = [n \in 1..MaxNodes |-> 0]
    /\ rev = FALSE
    /\ attr = [n \in Nodes |-> CHOOSE e \in TreeElems : e.pid = 1]
    /\ cond = EmptyCond
    /\ res = NoRes

(* --------------------------- search machine ---------------------------- *)

InitFind ==
    /\ par \in TreeShapes
    /\ rev \in BOOLEAN
    /\ attr \in [Nodes -> TreeElems]
    /\ cond \in FindConds
    /\ res = NoRes
    /\ FocusIdle
    /\ TreeIdle
    /\ EnumIdle
    /\ SearchIdle
    /\ UiaIdle

\* element.find_all(condition)
DoFindAll(start) ==
    /\ res.op = "none"
    /\ res' = [op |-> "find_all", start |-> start, elem |-> attr[start], val |-> FindAll(start, cond)]
    /\ UNCHANGED <<par, rev, attr, cond>>
    /\ UNCHANGED focusVars
    /\ UNCHANGED treeVars
    /\ UNCHANGED enumVars
    /\ UNCHANGED searchVars
    /\ UNCHANGED uia

\* element.find_first(condition); val is <<>> for None, <<n>> for an element
DoFindFirst(start) ==
    /\ res.op = "none"
    /\ res' = [op |-> "find_first", start |-> start, elem |-> attr[start],
               val |-> LET f == FindFirst(start, cond) IN IF f = None THEN <<>> ELSE <<f>>]
    /\ UNCHANGED <<par, rev, attr, cond>>
    /\ UNCHANGED focusVars
    /\ UNCHANGED treeVars
    /\ UNCHANGED enumVars
    /\ UNCHANGED searchVars
    /\ UNCHANGED uia

NextFind == \E s \in Nodes : DoFindAll(s) \/ DoFindFirst(s)

SpecFind == InitFind /\ [][NextFind]_vars

(* --------------------------- match machine ----------------------------- *)

InitMatch ==
    /\ FindIdle
    /\ FocusIdle
    /\ TreeIdle
    /\ EnumIdle
    /\ SearchIdle
    /\ UiaIdle

\* element.satisfies(condition) / condition.matches(element) on a handle
\* whose attributes are e
DoSatisfies(c, e) ==
    /\ res.op = "none"
    /\ cond' = c
    /\ res' = [op |-> "satisfies", start |-> None, elem |-> e, val |-> <<Satisfies(c, e)>>]
    /\ UNCHANGED <<par, rev, attr>>
    /\ UNCHANGED focusVars
    /\ UNCHANGED treeVars
    /\ UNCHANGED enumVars
    /\ UNCHANGED searchVars
    /\ UNCHANGED uia

\* the caller builds condition c along the given path and materializes it
DoMaterialize(path, c) ==
    /\ res.op = "none"
    /\ c.sentinel => path \in {"uia.native", "uia_old.condition", "win32_old.matches"}
    /\ cond' = c
    /\ res' = [op |-> "materialize", start |-> None, elem |-> attr[Root], val |-> <<path, Materialize(path, c)>>]
    /\ UNCHANGED <<par, rev, attr>>
    /\ UNCHANGED focusVars
    /\ UNCHANGED treeVars
    /\ UNCHANGED enumVars
    /\ UNCHANGED searchVars
    /\ UNCHANGED uia

NextMatch ==
    \/ \E c \in Conds, e \in Elems : DoSatisfies(c, e)
    \/ \E path \in Paths, c \in Conds \cup {TrueCondition} : DoMaterialize(path, c)

SpecMatch == InitMatch /\ [][NextMatch]_vars


(* ===================== properties: matching and search ================= *)

RECURSIVE AncSet(_)
\* proper ancestors of handle n
AncSet(n) == IF n = Root THEN {} ELSE {par[n]} \cup AncSet(par[n])

\* proper descendants of handle s
Desc(s) == {n \in Nodes : s \in AncSet(n)}

\* the child of p on the path from p down to x
Branch(p, x) == CHOOSE c \in ChildSet(p) : c = x \/ c \in AncSet(x)

IndexOf(seq, x) == CHOOSE i \in 1..Len(seq) : seq[i] = x

\* refinements the caller supplied (a field left at its None default is not one)
Supplied(c) ==
    (IF c.pid # None THEN {"pid"} ELSE {}) \cup (IF c.control_id # None THEN {"control_id"} ELSE {})
    \cup (IF c.class_name # NoStr THEN {"class_name"} ELSE {}) \cup (IF c.title.kind # "none" THEN {"title"} ELSE {})

\* the supplied refinement f holds for the element
Holds(f, c, e) ==
    CASE f = "pid" -> c.pid = e.pid
      [] f = "control_id" -> c.control_id = e.control_id
      [] f = "class_name" -> c.class_name = e.class_name
      [] f = "title" -> SatTitle(c, e)

\* every supplied refinement carries a value Python treats as true
AllTruthy(c) ==
    /\ (c.pid # None => TruthyInt(c.pid))
    /\ (c.control_id # None => TruthyInt(c.control_id))
    /\ (c.class_name # NoStr => TruthyStr(c.class_name))
    /\ (c.title.kind # "none" => TruthyTitle(c.title))

\* C1: a condition with two or more refinements matches an element if and
\* only if every supplied refinement holds for it (stated for refinements
\* whose values are non-zero and non-empty).
C1_Conjunctive ==
    (res.op = "satisfies" /\ Cardinality(Supplied(cond)) >= 2 /\ AllTruthy(cond))
        => (res.val[1] <=> \A f \in Supplied(cond) : Holds(f, cond, res.elem))

\* C27: every refinement supplied to a window-backend condition constrains
\* the match whatever its value: a condition built with control_id = 0 (or
\* pid = 0) alone matches exactly the elements whose control id (process
\* id) is 0, and a condition with no refinement matches no element.
C27_ZeroValuesConstrain ==
    (res.op = "satisfies" /\ ~cond.sentinel) =>
        /\ (Supplied(cond) = {"control_id"} /\ cond.control_id = 0) => (res.val[1] <=> res.elem.control_id = 0)
        /\ (Supplied(cond) = {"pid"} /\ cond.pid = 0) => (res.val[1] <=> res.elem.pid = 0)
        /\ Supplied(cond) = {} => ~res.val[1]

\* C14: materializing a condition with zero refinements that is not the
\* match-everything sentinel fails with ConditionNotCreatedError on every
\* construction path of every backend, and a sentinel or a condition with
\* at least one refinement never raises it.
C14_EmptyConditionRejected ==
    res.op = "materialize" =>
        (res.val[2] = "ConditionNotCreatedError" <=> (Supplied(cond) = {} /\ ~cond.sentinel))

\* the shape of the example: start has children [c1, c2], c1 has the single
\* child g1, and g1 and c2 are leaves
ExampleShape(s) ==
    /\ Len(Children(s)) = 2
    /\ Len(Children(Children(s)[1])) = 1
    /\ Children(Children(Children(s)[1])[1]) = <<>>
    /\ Children(Children(s)[2]) = <<>>

ExampleOrder(s) == <<Children(s)[1], Children(Children(s)[1])[1], Children(s)[2]>>

\* r lists exactly the matching proper descendants of s, each once, every
\* node before its own descendants and siblings' subtrees in children() order
IsPreOrder(r, s, c) ==
    /\ {r[i] : i \in 1..Len(r)} = {n \in Desc(s) : Matches(c, attr[n])}
    /\ \A i, j \in 1..Len(r) : i # j => r[i] # r[j]
    /\ \A i, j \in 1..Len(r) :
         i < j =>
           /\ r[j] \notin AncSet(r[i])
           /\ r[i] \notin AncSet(r[j]) =>
                LET p == CHOOSE a \in (AncSet(r[i]) \cap AncSet(r[j])) :
                            \A b \in (AncSet(r[i]) \cap AncSet(r[j])) : b = a \/ b \in AncSet(a)
                IN IndexOf(Children(p), Branch(p, r[i])) < IndexOf(Children(p), Branch(p, r[j]))

\* C5: find_all returns the matching descendants in depth-first pre-order,
\* start element excluded, nothing dropped; on the example tree a
\* match-everything search yields [c1, g1, c2].
C5_FindAllPreOrder ==
    res.op = "find_all" =>
        /\ IsPreOrder(res.val, res.start, cond)
        /\ (cond.sentinel /\ ExampleShape(res.start)) => res.val = ExampleOrder(res.start)

C5_Witness ==
    /\ res.op = "find_all"
    /\ cond.sentinel
    /\ ExampleShape(res.start)
    /\ Len(res.val) = 3

\* C6: find_first returns the first element of what find_all returns for
\* the same start element and condition, and None exactly when that is empty.
C6_FindFirstIsHeadOfFindAll ==
    res.op = "find_first" =>
        res.val = (IF FindAll(res.start, cond) = <<>> THEN <<>> ELSE <<Head(FindAll(res.start, cond))>>)

C6_Witness ==
    /\ res.op = "find_first"
    /\ ~cond.sentinel
    /\ res.val # <<>>
    /\ par[res.val[1]] # res.start
    /\ Len(FindAll(res.start, cond)) >= 2


(* ============================ focus machine ============================ *)

\* handle of the Window object the focus method is called on
Target == 1

\* top-level handles the OS knows; 0 is the NULL handle
TopHandles == 1..MaxTop

\* thread that owns a window
Tid(h) == 10 + h

\* what the OS reports for one enumerated top-level window:
\* IsWindowVisible, a non-empty GetWindowTextW, and Window.is_real_window()
WinKinds ==
    { [visible |-> FALSE, titled |-> TRUE, real |-> FALSE],
      [visible |-> TRUE, titled |-> FALSE, real |-> TRUE],
      [visible |-> TRUE, titled |-> TRUE, real |-> TRUE],
      [visible |-> TRUE, titled |-> TRUE, real |-> FALSE] }

\* enumeration orders of EnumWindows: no handle is delivered twice
TopOrders == {q \in UNION {[1..k -> TopHandles] : k \in 0..MaxTop} : \A i, j \in 1..Len(q) : i # j => q[i] # q[j]}

TopLists == UNION {{[i \in 1..Len(q) |-> [hwnd |-> q[i], kind |-> ks[i]]] : ks \in [1..Len(q) -> WinKinds]} : q \in TopOrders}

IsReal(w) == w.kind.real

\* windows(): every enumerated handle whose Window passes is_real_window()
Windows(env) == SelectSeq(env.tops, IsReal)

IsVisibleTitled(w) == w.kind.visible /\ w.kind.titled

\* Window.top_window(): the first enumerated window that is visible and has
\* a non-empty title, None (0) when the enumeration delivers none
TopWindow(env) == LET v == SelectSeq(env.tops, IsVisibleTitled) IN IF v = <<>> THEN 0 ELSE v[1].hwnd

\* Window.__eq__(other), other = 0 standing for None, a value that is not
\* a Window
WindowEq(hwnd, other) ==
    IF other = 0 THEN "NotImplementedError"
    ELSE IF hwnd = other THEN "true" ELSE "false"

\* Window.is_focused(): "true", "false", or "raise" when a call inside fails
IsFocused(env, ver) ==
    IF env.fg = 0 THEN "raise"
    ELSE IF ver = "new" /\ Windows(env) = <<>> THEN "raise"
    ELSE IF env.fg = Target THEN "true"
    ELSE IF TopWindow(env) = 0 THEN "raise"
    ELSE IF TopWindow(env) = Target THEN "true"
    ELSE "false"

Call(f, a, ok, pair) == [f |-> f, a |-> a, ok |-> ok, pair |-> pair]

NoPair == <<0, 0>>

FocusFrame == UNCHANGED findVars /\ UNCHANGED treeVars /\ UNCHANGED enumVars /\ UNCHANGED searchVars /\ UNCHANGED uia

InitFocus ==
    /\ fenv \in [fg : {0} \cup TopHandles, tops : TopLists, attached : {FALSE}, topmost : {FALSE}]
    /\ fpc = "idle"
    /\ fst = [m |-> "none", ver |-> "new", pre |-> "false", fgtid |-> 0, fail |-> "none", err |-> FALSE, gentle |-> 0,
              iconic |-> FALSE, zoomed |-> FALSE]
    /\ calls = <<>>
    /\ FindIdle
    /\ TreeIdle
    /\ EnumIdle
    /\ SearchIdle
    /\ UiaIdle

\* the caller invokes window.focus() / window._focus()
\* (set_focus / set_focus2 in the earlier revision)
FocusCall(m, ver) ==
    /\ fpc = "idle"
    /\ fpc' = IF m = "_focus" THEN "check" ELSE "g_enter"
    /\ fst' = [fst EXCEPT !.m = m, !.ver = ver, !.pre = IsFocused(fenv, ver)]
    /\ UNCHANGED <<fenv, calls>>
    /\ FocusFrame

\* _focus: if self.is_focused(): return
StepIsFocused ==
    /\ fpc = "check"
    /\ fpc' = CASE IsFocused(fenv, fst.ver) = "raise" -> "raised"
                [] IsFocused(fenv, fst.ver) = "true" -> "done"
                [] OTHER -> "fg"
    /\ UNCHANGED <<fenv, fst, calls>>
    /\ FocusFrame

\* _focus: fg_hwnd = GetForegroundWindow(); fg_tid, _ = GetWindowThreadProcessId(fg_hwnd)
\* the foreground window is read anew and may have changed since the check
StepForeground ==
    /\ fpc = "fg"
    /\ \E h \in {0} \cup TopHandles, tidOk \in BOOLEAN :
         /\ fenv' = [fenv EXCEPT !.fg = h]
         /\ IF h = 0
            THEN fpc' = "raised" /\ fst' = [fst EXCEPT !.fail = "GetForegroundWindow"]
            ELSE IF ~tidOk
            THEN fpc' = "raised" /\ fst' = [fst EXCEPT !.fail = "GetWindowThreadProcessId"]
            ELSE fpc' = "session" /\ fst' = [fst EXCEPT !.fgtid = Tid(h)]
    /\ UNCHANGED calls
    /\ FocusFrame

\* _focus: if not self.is_in_current_session(): self.focus(); return
StepSession ==
    /\ fpc = "session"
    /\ \E s \in {"same", "other", "raise"} :
         CASE s = "same" -> fpc' = "attach" /\ UNCHANGED fst
           [] s = "other" -> fpc' = "g_enter" /\ fst' = [fst EXCEPT !.fail = "session"]
           [] s = "raise" -> fpc' = "raised" /\ fst' = [fst EXCEPT !.fail = "ProcessIdToSessionId"]
    /\ UNCHANGED <<fenv, calls>>
    /\ FocusFrame

\* _focus: try: AttachThreadInput(self.tid, fg_tid, True)
\*         except Exception: self.focus(); return
StepAttach ==
    /\ fpc = "attach"
    /\ \E ok \in BOOLEAN :
         /\ calls' = Append(calls, Call("AttachThreadInput", "attach", ok, <<Tid(Target), fst.fgtid>>))
         /\ IF ok
            THEN fpc' = "show" /\ fenv' = [fenv EXCEPT !.attached = TRUE] /\ UNCHANGED fst
            ELSE fpc' = "g_enter" /\ fst' = [fst EXCEPT !.fail = "AttachThreadInput"] /\ UNCHANGED fenv
    /\ FocusFrame

\* the branches taken in the other order: maximize before restore
ShowCmdZoomedFirst(iconic, zoomed) ==
    IF zoomed THEN "SW_MAXIMIZE" ELSE IF iconic THEN "SW_RESTORE" ELSE "SW_SHOW"

\* if self.is_minimized(): restore() elif self.is_maximized(): maximize()
\* else: show() -- the ShowWindow command issued
ShowCmd(iconic, zoomed) ==
    IF iconic THEN "SW_RESTORE" ELSE IF zoomed THEN "SW_MAXIMIZE" ELSE "SW_SHOW"

\* _focus: restore if minimized, else maximize if maximized, else show;
\* IsIconic / IsZoomed are read when the branch is chosen
StepShow ==
    /\ fpc = "show"
    /\ \E iconic \in BOOLEAN, zoomed \in BOOLEAN :
         /\ calls' = Append(calls, Call("ShowWindow", ShowCmd(iconic, zoomed), TRUE, NoPair))
         /\ fst' = [fst EXCEPT !.iconic = iconic, !.zoomed = zoomed]
    /\ fpc' = "setfg"
    /\ UNCHANGED fenv
    /\ FocusFrame

StepSetForegroundNoFinally ==
    /\ fpc = "setfg"
    /\ \E ok \in BOOLEAN :
         /\ calls' = Append(calls, Call("SetForegroundWindow", "", ok, NoPair))
         /\ IF ok
            THEN fpc' = "detach" /\ fenv' = [fenv EXCEPT !.fg = Target] /\ UNCHANGED fst
            ELSE fpc' = "raised" /\ fst' = [fst EXCEPT !.fail = "SetForegroundWindow", !.err = TRUE] /\ UNCHANGED fenv
    /\ FocusFrame

\* _focus: SetForegroundWindow(self.hwnd) inside try ... finally
StepSetForeground ==
    /\ fpc = "setfg"
    /\ \E ok \in BOOLEAN :
         /\ calls' = Append(calls, Call("SetForegroundWindow", "", ok, NoPair))
         /\ IF ok
            THEN fenv' = [fenv EXCEPT !.fg = Target] /\ UNCHANGED fst
            ELSE fst' = [fst EXCEPT !.fail = "SetForegroundWindow", !.err = TRUE] /\ UNCHANGED fenv
    /\ fpc' = "detach"
    /\ FocusFrame

\* _focus: finally: AttachThreadInput(self.tid, fg_tid, False)
\* the OS refuses a detach only when the link is already gone (the attached
\* thread ended); a refused detach raises out of the finally block
StepDetach ==
    /\ fpc = "detach"
    /\ \E ok \in BOOLEAN :
         /\ calls' = Append(calls, Call("AttachThreadInput", "detach", ok, <<Tid(Target), fst.fgtid>>))
         /\ fenv' = [fenv EXCEPT !.attached = FALSE]
         /\ IF ~ok
            THEN fpc' = "raised" /\ fst' = [fst EXCEPT !.fail = IF fst.fail = "none" THEN "detach" ELSE fst.fail]
            ELSE fpc' = (IF fst.err THEN "raised" ELSE "done") /\ UNCHANGED fst
    /\ FocusFrame

\* focus(): the is_focused() guard is commented out in the current revision;
\* set_focus() of the earlier revision starts with `if self.is_focused(): return`
GentleGuard(ver) == ver = "old"

StepGentleEnter ==
    /\ fpc = "g_enter"
    /\ fst' = [fst EXCEPT !.gentle = fst.gentle + 1]
    /\ fpc' = IF GentleGuard(fst.ver)
              THEN CASE IsFocused(fenv, fst.ver) = "raise" -> "raised"
                     [] IsFocused(fenv, fst.ver) = "true" -> "done"
                     [] OTHER -> "g_show"
              ELSE "g_show"
    /\ UNCHANGED <<fenv, calls>>
    /\ FocusFrame

\* focus(): self.show()
StepGentleShow ==
    /\ fpc = "g_show"
    /\ calls' = Append(calls, Call("ShowWindow", "SW_SHOW", TRUE, NoPair))
    /\ fpc' = "g_top"
    /\ UNCHANGED <<fenv, fst>>
    /\ FocusFrame

\* focus(): SetWindowPos(hwnd, HWND_TOPMOST, 0, 0, 0, 0, SWP_NOMOVE | SWP_NOSIZE)
StepGentleTop ==
    /\ fpc = "g_top"
    /\ \E ok \in BOOLEAN :
         /\ calls' = Append(calls, Call("SetWindowPos", "HWND_TOPMOST", ok, NoPair))
         /\ fenv' = [fenv EXCEPT !.topmost = IF ok THEN TRUE ELSE @]
         /\ fpc' = IF ok THEN "g_notop" ELSE "raised"
    /\ UNCHANGED fst
    /\ FocusFrame

\* focus(): SetWindowPos(hwnd, HWND_NOTOPMOST, 0, 0, 0, 0, SWP_NOMOVE | SWP_NOSIZE)
StepGentleNoTop ==
    /\ fpc = "g_notop"
    /\ \E ok \in BOOLEAN :
         /\ calls' = Append(calls, Call("SetWindowPos", "HWND_NOTOPMOST", ok, NoPair))
         /\ fenv' = [fenv EXCEPT !.topmost = IF ok THEN FALSE ELSE @]
         /\ fpc' = IF ok THEN "g_sleep" ELSE "raised"
    /\ UNCHANGED fst
    /\ FocusFrame

\* focus(): time.sleep(delay_after), then return
StepGentleSleep ==
    /\ fpc = "g_sleep"
    /\ fpc' = "done"
    /\ UNCHANGED <<fenv, fst, calls>>
    /\ FocusFrame

NextFocus ==
    \/ \E m \in {"focus", "_focus"}, ver \in {"new", "old"} : FocusCall(m, ver)
    \/ StepIsFocused
    \/ StepForeground
    \/ StepSession
    \/ StepAttach
    \/ StepShow
    \/ StepSetForeground
    \/ StepDetach
    \/ StepGentleEnter
    \/ StepGentleShow
    \/ StepGentleTop
    \/ StepGentleNoTop
    \/ StepGentleSleep

SpecFocus == InitFocus /\ [][NextFocus]_vars

(* ========================= properties: focus =========================== *)

FocusEnded == fpc \in {"done", "raised"}

\* C2: once AttachThreadInput(attach) has succeeded, the detach for the same
\* thread pair is called before the attach-based method returns or raises,
\* and the method never ends, nor falls back, with the attachment active.
C2_DetachAlways ==
    /\ fenv.attached => fpc \in {"show", "setfg", "detach"}
    /\ FocusEnded =>
         \A i \in 1..Len(calls) :
            (calls[i].f = "AttachThreadInput" /\ calls[i].a = "attach" /\ calls[i].ok) =>
               \E j \in (i + 1)..Len(calls) :
                  calls[j].f = "AttachThreadInput" /\ calls[j].a = "detach" /\ calls[j].pair = calls[i].pair

\* the method ended by the exception of a refused SetForegroundWindow
C2_Witness ==
    /\ fpc = "raised"
    /\ fst.fail = "SetForegroundWindow"
    /\ Len(calls) = 4
    /\ calls[4].a = "detach"
    /\ ~fenv.attached

\* C3: when is_focused() is true at the invocation, the focus method
\* (gentle or attach-based) returns without any OS mutation call.
C3_NoCallsWhenFocused ==
    (fst.m # "none" /\ fst.pre = "true") => (calls = <<>> /\ fpc # "raised")

\* C4: a failure of any step of the attach-based method after the
\* is-focused check makes it run the gentle method and return normally.
C4_FailuresFallBack ==
    (fst.m = "_focus" /\ FocusEnded /\ fst.fail \in {"GetForegroundWindow", "GetWindowThreadProcessId", "ProcessIdToSessionId", "session", "AttachThreadInput", "SetForegroundWindow"})
        => (fpc = "done" /\ fst.gentle = 1)

\* the focus method was just entered: nothing has run since is_focused()
\* was evaluated on the environment
JustCalled == fpc = "check" \/ (fst.m = "focus" /\ fpc = "g_enter")

\* C19: when the foreground-window API returns no window, is_focused does
\* not fail; it returns true exactly when the target is the first
\* enumerated visible window with a non-empty title, and false otherwise.
C19_SecondarySignalUsed ==
    (JustCalled /\ fenv.fg = 0) =>
        fst.pre = (IF TopWindow(fenv) = Target THEN "true" ELSE "false")

\* C30: Window.is_focused always returns a boolean and never raises; when
\* the target is not the foreground window and no visible window with a
\* non-empty title is enumerated (Window.top_window returns None) it
\* returns false; comparing a Window for equality with a value that is
\* not a Window yields false.
C30_IsFocusedBoolean ==
    JustCalled =>
        /\ fst.pre \in {"true", "false"}
        /\ (fenv.fg # Target /\ TopWindow(fenv) = 0) =>
              (fst.pre = "false" /\ WindowEq(Target, TopWindow(fenv)) = "false")

\* C20: in the attach-based method, when the target is not in the caller's
\* login session or AttachThreadInput(attach) is refused, the gentle method
\* is run exactly once and the method returns; AttachThreadInput is never
\* called in the cross-session case, and in both cases neither
\* SetForegroundWindow nor AttachThreadInput(detach) is called.
C20_FallbackRunsGentleOnce ==
    (fst.m = "_focus" /\ FocusEnded /\ fst.fail \in {"session", "AttachThreadInput"}) =>
        /\ fst.gentle = 1
        /\ fpc = "done"
        /\ \A i \in 1..Len(calls) :
              /\ calls[i].f # "SetForegroundWindow"
              /\ ~(calls[i].f = "AttachThreadInput" /\ calls[i].a = "detach")
              /\ fst.fail = "session" => calls[i].f # "AttachThreadInput"

AttachOk(i) == calls[i].f = "AttachThreadInput" /\ calls[i].a = "attach" /\ calls[i].ok

\* C21: after a successful attach the attach-based method makes exactly one
\* state-normalising ShowWindow call (restore if minimized, otherwise
\* maximize if maximized, otherwise show), then SetForegroundWindow, both
\* strictly between the attach and the detach; SetForegroundWindow is
\* never called while no attachment is active.
C21_ShowThenForegroundWhileAttached ==
    /\ fpc = "setfg" => fenv.attached
    /\ \A i \in 1..Len(calls) :
          /\ AttachOk(i) =>
                /\ Len(calls) >= i + 1 =>
                      /\ calls[i + 1].f = "ShowWindow"
                      /\ calls[i + 1].a = (IF fst.iconic THEN "SW_RESTORE" ELSE IF fst.zoomed THEN "SW_MAXIMIZE" ELSE "SW_SHOW")
                /\ Len(calls) >= i + 2 => calls[i + 2].f = "SetForegroundWindow"
                /\ Len(calls) >= i + 3 => (calls[i + 3].f = "AttachThreadInput" /\ calls[i + 3].a = "detach")
                /\ Len(calls) <= i + 3
                /\ FocusEnded => Len(calls) = i + 3
          /\ calls[i].f = "SetForegroundWindow" => (i >= 3 /\ AttachOk(i - 2))

\* the method returned after restoring a window that was both minimized
\* and maximized, calling SetForegroundWindow and detaching
C21_Witness ==
    /\ fpc = "done" /\ fst.m = "_focus"
    /\ fst.iconic /\ fst.zoomed
    /\ Len(calls) = 4
    /\ calls[2].a = "SW_RESTORE"
    /\ calls[3].f = "SetForegroundWindow" /\ calls[3].ok

\* C22: the gentle method never fails at the API level: whatever the two
\* SetWindowPos calls (topmost, then non-topmost) return, it makes both,
\* returns normally after the settle delay and raises nothing.
C22_GentleNeverFails ==
    (fst.m = "focus" /\ FocusEnded /\ calls # <<>>) =>
        /\ fpc = "done"
        /\ Len(calls) = 3
        /\ calls[2].f = "SetWindowPos" /\ calls[2].a = "HWND_TOPMOST"
        /\ calls[3].f = "SetWindowPos" /\ calls[3].a = "HWND_NOTOPMOST"

\* C26: when the gentle method has ended, normally or by an exception of
\* one of its OS calls, the window is not left topmost: every successful
\* SetWindowPos(topmost) is followed by a successful SetWindowPos(non-topmost)
\* before control returns to the caller.
C26_NotLeftTopmost ==
    FocusEnded =>
        /\ ~fenv.topmost
        /\ \A i \in 1..Len(calls) :
              (calls[i].f = "SetWindowPos" /\ calls[i].a = "HWND_TOPMOST" /\ calls[i].ok) =>
                  \E j \in (i + 1)..Len(calls) :
                      calls[j].f = "SetWindowPos" /\ calls[j].a = "HWND_NOTOPMOST" /\ calls[j].ok

(* ============================ tree walk machine ======================== *)

\* the two attribute assignments walked: one type key everywhere, or two
\* type keys alternating over the handles
TreeAttrs ==
    { [n \in Nodes |-> CHOOSE e \in TreeElems : e.pid = 1],
      [n \in Nodes |-> CHOOSE e \in TreeElems : e.pid = 1 + (n % 2)] }

\* element.class_name (window backend) / element.control_type.name (accessibility backend)
TypeKey(n) == attr[n].class_name

Ev(k, n, ord, info) == [k |-> k, n |-> n, ord |-> ord, info |-> info]

\* highlight durations a caller passes as outline_duration / outline_duration_ms
Durations == {"5", "75"}

\* arguments of a walk; real is the set of top-level handles that pass
\* is_real_window() when Context.tree enumerates the windows itself
WalkCfgs ==
    { c \in [entry : {"Element.tree", "Context.tree"}, backend : {"win32", "uia"}, elem : BOOLEAN,
             real : {{}, ChildSet(Root), ChildSet(Root) \ {1}}, bounded : BOOLEAN,
             max_depth : (-1)..MaxDepthArg, draw : BOOLEAN, dur : Durations] :
        /\ (~(c.draw /\ ~c.bounded) => c.dur = "75")
        /\ (c.entry = "Element.tree" => c.elem)
        /\ (c.entry = "Context.tree" => (~c.draw /\ c.max_depth \in {-1, 0, MaxDepthArg}))
        /\ (~(c.entry = "Context.tree" /\ c.backend = "win32" /\ ~c.elem) => c.real = {})
        /\ (~c.bounded => c.max_depth = 0) }

\* Context.tree of the window backend without an element walks cls.windows()
WalksWindows(c) == c.entry = "Context.tree" /\ c.backend = "win32" /\ ~c.elem

\* frame of one tree() invocation that is iterating element.children();
\* the bottom frame stands for the caller, which holds the start elements
Frame(n, depth, kids) == [n |-> n, depth |-> depth, kids |-> kids, i |-> 1]

RECURSIVE Unwind(_)
\* return from every invocation whose loop over the children is exhausted
Unwind(st) ==
    IF st = <<>> THEN <<>>
    ELSE IF st[Len(st)].i > Len(st[Len(st)].kids) THEN Unwind(SubSeq(st, 1, Len(st) - 1))
    ELSE st

\* max_depth is None or depth < max_depth
Descend(d) == ~wcfg.bounded \/ d < wcfg.max_depth

\* the ordinal taken from the counter before it is incremented, shifted by one
OrdinalOneBased(cnt1, key) == cnt1[key]

\* idx = counters[key] - 1, read after counters[key] was incremented
Ordinal(cnt1, key) == cnt1[key] - 1

\* outline() that draws whatever the rectangle is
OutlineAlways(n, ord, area) ==
    <<Ev("outline", n, ord, IF area THEN "area" ELSE "no_area"), Ev("render", n, ord, wcfg.dur)>>

\* element.outline(duration_ms = ...) once the rectangle was read again:
\* the call itself, then the renderer call unless has_area() is false
Outline(n, ord, area) ==
    <<Ev("outline", n, ord, IF area THEN "area" ELSE "no_area")>> \o (IF area THEN <<Ev("render", n, ord, wcfg.dur)>> ELSE <<>>)

\* the except branch without its return statement
TreeBodyNoReturn(n, d, cnt0, attrFail, rectOk, rect2Ok, area, kidsOk) ==
    LET key == TypeKey(n)
        cnt1 == [cnt0 EXCEPT ![key] = @ + 1]
        ord == Ordinal(cnt1, key)
        evp == <<Ev("print", n, ord, IF rectOk THEN "rect" ELSE "COMError")>>
        evo == evp \o (IF wcfg.draw THEN Outline(n, ord, area) ELSE <<>>)
    IN IF attrFail = "control_type" THEN [err |-> "control_type", cnt |-> cnt0, ev |-> <<>>, kids |-> <<>>, loop |-> FALSE]
       ELSE IF attrFail = "text" THEN [err |-> "text", cnt |-> cnt1, ev |-> <<>>, kids |-> <<>>, loop |-> FALSE]
       ELSE IF wcfg.draw /\ ~rect2Ok THEN [err |-> "outline_rect", cnt |-> cnt1, ev |-> evp, kids |-> <<>>, loop |-> FALSE]
       ELSE IF ~Descend(d) THEN [err |-> "none", cnt |-> cnt1, ev |-> evo, kids |-> <<>>, loop |-> FALSE]
       ELSE IF ~kidsOk THEN [err |-> "children", cnt |-> cnt1, ev |-> evo, kids |-> <<>>, loop |-> FALSE]
       ELSE [err |-> "none", cnt |-> cnt1, ev |-> evo \o <<Ev("children", n, ord, "")>>, kids |-> Children(n), loop |-> TRUE]

\* the body of Element.tree for element n at the given depth, under the
\* outcomes of the OS reads it makes:
\*   attrFail : which read before the try block fails (accessibility backend)
\*   rectOk   : element.rect inside the try block
\*   rect2Ok  : element.rect read again by element.outline()
\*   area     : rect.has_area() in element.outline()
\*   kidsOk   : element.children()
TreeBody(n, d, cnt0, attrFail, rectOk, rect2Ok, area, kidsOk) ==
    LET key == TypeKey(n)
        cnt1 == [cnt0 EXCEPT ![key] = @ + 1]
        ord == Ordinal(cnt1, key)
        evp == <<Ev("print", n, ord, "rect")>>
        evo == evp \o (IF wcfg.draw THEN Outline(n, ord, area) ELSE <<>>)
    IN IF attrFail = "control_type" THEN [err |-> "control_type", cnt |-> cnt0, ev |-> <<>>, kids |-> <<>>, loop |-> FALSE]
       ELSE IF attrFail = "text" THEN [err |-> "text", cnt |-> cnt1, ev |-> <<>>, kids |-> <<>>, loop |-> FALSE]
       ELSE IF ~rectOk THEN [err |-> "none", cnt |-> cnt1, ev |-> <<Ev("print", n, ord, "COMError")>>, kids |-> <<>>, loop |-> FALSE]
       ELSE IF wcfg.draw /\ ~rect2Ok THEN [err |-> "outline_rect", cnt |-> cnt1, ev |-> evp, kids |-> <<>>, loop |-> FALSE]
       ELSE IF ~Descend(d) THEN [err |-> "none", cnt |-> cnt1, ev |-> evo, kids |-> <<>>, loop |-> FALSE]
       ELSE IF ~kidsOk THEN [err |-> "children", cnt |-> cnt1, ev |-> evo, kids |-> <<>>, loop |-> FALSE]
       ELSE [err |-> "none", cnt |-> cnt1, ev |-> evo \o <<Ev("children", n, ord, "")>>, kids |-> Children(n), loop |-> TRUE]

TreeFrame == UNCHANGED findVars /\ UNCHANGED focusVars /\ UNCHANGED enumVars /\ UNCHANGED searchVars /\ UNCHANGED uia

InitTree ==
    /\ par \in TreeShapes
    /\ rev = FALSE
    /\ attr \in TreeAttrs
    /\ cond = EmptyCond
    /\ res = NoRes
    /\ FocusIdle
    /\ TreeIdle
    /\ EnumIdle
    /\ SearchIdle
    /\ UiaIdle

\* the caller invokes element.tree(...) on the root handle, or
\* Context.tree(...) with that element or with none
TreeCall(c) ==
    /\ wpc = "idle"
    /\ wcfg' = c
    /\ IF WalksWindows(c)
       THEN LET wins == SelectSeq(Children(Root), LAMBDA w : w \in c.real)
            IN /\ out' = <<Ev("enum", Root, 0, "EnumWindows")>>
               /\ stack' = IF wins = <<>> THEN <<>> ELSE <<Frame(None, -1, wins)>>
               /\ wpc' = IF wins = <<>> THEN "done" ELSE "run"
       ELSE /\ out' = <<>>
            /\ stack' = <<Frame(None, -1, <<Root>>)>>
            /\ wpc' = "run"
    /\ UNCHANGED <<counters, werr>>
    /\ TreeFrame

\* one invocation of Element.tree: the argument check, then the body
TreeVisit ==
    /\ wpc = "run"
    /\ LET top == stack[Len(stack)]
           n == top.kids[top.i]
           d == top.depth + 1
           cnt0 == IF Len(stack) = 1 THEN ZeroCounters ELSE counters
           advanced == [stack EXCEPT ![Len(stack)].i = @ + 1]
       IN IF wcfg.bounded /\ wcfg.max_depth < 0
          THEN /\ wpc' = "raised"
               /\ werr' = "ValueError"
               /\ UNCHANGED <<stack, counters, out>>
          ELSE \E attrFail \in (IF wcfg.backend = "uia" THEN {"none", "control_type", "text"} ELSE {"none"}),
                  rectOk \in BOOLEAN, rect2Ok \in (IF wcfg.draw THEN BOOLEAN ELSE {TRUE}),
                  area \in (IF wcfg.draw THEN BOOLEAN ELSE {TRUE}), kidsOk \in (IF Descend(d) THEN BOOLEAN ELSE {TRUE}) :
                 LET r == TreeBody(n, d, cnt0, attrFail, rectOk, rect2Ok, area, kidsOk)
                     pushed == IF r.loop THEN Append(advanced, Frame(n, d, r.kids)) ELSE advanced
                 IN /\ out' = out \o r.ev
                    /\ counters' = r.cnt
                    /\ werr' = r.err
                    /\ IF r.err # "none"
                       THEN wpc' = "raised" /\ stack' = stack
                       ELSE /\ stack' = Unwind(pushed)
                            /\ wpc' = IF Unwind(pushed) = <<>> THEN "done" ELSE "run"
    /\ UNCHANGED wcfg
    /\ TreeFrame

NextTree ==
    \/ \E c \in WalkCfgs : TreeCall(c)
    \/ TreeVisit

SpecTree == InitTree /\ [][NextTree]_vars


(* ========================= properties: tree walk ======================= *)

WalkEnded == wpc \in {"done", "raised"}

\* depth of handle n below the root handle
Depth(n) == Cardinality(AncSet(n))

\* handles whose line was printed, in print order
Printed == LET p == SelectSeq(out, LAMBDA e : e.k = "print") IN [i \in 1..Len(p) |-> p[i].n]

RECURSIVE PreOrderTo(_, _)
RECURSIVE PreOrderKids(_, _, _)
\* n followed by its descendants down to `levels` levels below it, pre-order
PreOrderTo(n, levels) == <<n>> \o (IF levels > 0 THEN PreOrderKids(Children(n), 1, levels - 1) ELSE <<>>)

PreOrderKids(kids, i, levels) == IF i > Len(kids) THEN <<>> ELSE PreOrderTo(kids[i], levels) \o PreOrderKids(kids, i + 1, levels)

\* no read of a bounding rectangle failed during the walk
NoRectFailure == werr # "outline_rect" /\ \A i \in 1..Len(out) : out[i].info # "COMError"

\* C7: Element.tree with max_depth = d >= 0 never visits a node deeper than
\* d and, when no rect read fails, visits every node at depth <= d in
\* children() order; max_depth = 0 visits only the start element, without a
\* children() call, under ordinal 0; with max_depth unset every node is visited.
C7_DepthBound ==
    (wcfg.entry = "Element.tree" /\ WalkEnded /\ ~(wcfg.bounded /\ wcfg.max_depth < 0)) =>
        /\ wcfg.bounded => \A i \in 1..Len(Printed) : Depth(Printed[i]) <= wcfg.max_depth
        /\ (wcfg.bounded /\ NoRectFailure) => Printed = PreOrderTo(Root, wcfg.max_depth)
        /\ (wcfg.bounded /\ wcfg.max_depth = 0) =>
              /\ Printed = <<Root>>
              /\ out[1].ord = 0
              /\ \A i \in 1..Len(out) : out[i].k # "children"
        /\ (~wcfg.bounded /\ NoRectFailure) => Printed = PreOrderTo(Root, MaxNodes)

\* C8: a walk requested with max_depth < 0 fails with the invalid-argument
\* error before any traversal: nothing is visited, counted, outlined or
\* enumerated, and every such call ends with that error.
C8_NegativeDepthRejected ==
    (wpc # "idle" /\ wcfg.bounded /\ wcfg.max_depth < 0) =>
        /\ out = <<>>
        /\ counters = ZeroCounters
        /\ WalkEnded => (wpc = "raised" /\ werr = "ValueError")

\* C9: a failing attribute read or children() enumeration of a stale node
\* is caught inside the walker; no such exception leaves Element.tree.
C9_StaleReadsCaught ==
    wpc = "raised" => werr \notin {"control_type", "text", "outline_rect", "children"}

\* the start elements of the walk: the enumerated windows, or the element
WalkStarts == IF WalksWindows(wcfg) THEN SelectSeq(Children(Root), LAMBDA w : w \in wcfg.real) ELSE <<Root>>

\* the list the walker took handle n from
SiblingsOf(n) == IF \E i \in 1..Len(WalkStarts) : WalkStarts[i] = n THEN WalkStarts ELSE Children(par[n])

HasNextSibling(n) == IndexOf(SiblingsOf(n), n) < Len(SiblingsOf(n))

NextSibling(n) == SiblingsOf(n)[IndexOf(SiblingsOf(n), n) + 1]

\* the element the next tree() invocation is for
Pending == stack[Len(stack)].kids[stack[Len(stack)].i]

\* C10: when the rect read of a node fails, its line is printed with the
\* failure marker, nothing is outlined for it, children() is not called on
\* it, none of its descendants is visited, and the walker goes on with the
\* node's following sibling.
C10_RectFailureSkipsSubtree ==
    \A i \in 1..Len(out) :
        (out[i].k = "print" /\ out[i].info = "COMError") =>
            /\ \A j \in 1..Len(out) : out[j].n = out[i].n => (j = i \/ (j < i /\ out[j].k = "enum"))
            /\ \A j \in (i + 1)..Len(out) : out[j].n \notin Desc(out[i].n)
            /\ HasNextSibling(out[i].n) =>
                  IF i < Len(out)
                  THEN out[i + 1].k = "print" /\ out[i + 1].n = NextSibling(out[i].n)
                  ELSE wpc \in {"run", "raised"} /\ Pending = NextSibling(out[i].n)

\* a node with children failed its rect read under outline drawing, and
\* the walker has printed the following sibling
C10_Witness ==
    \E i \in 1..Len(out) :
        /\ out[i].k = "print" /\ out[i].info = "COMError"
        /\ wcfg.draw
        /\ Descend(Depth(out[i].n))
        /\ ChildSet(out[i].n) # {}
        /\ i < Len(out)
        /\ out[i + 1].n = NextSibling(out[i].n)


\* the start element whose tree() call visits handle n
StartOf(n) == CHOOSE s \in {WalkStarts[i] : i \in 1..Len(WalkStarts)} : s = n \/ s \in AncSet(n)

\* positions of the lines printed before position i, within the same
\* tree() call, for nodes with the type key of the node printed at i
EarlierSameKey(i) ==
    {j \in 1..(i - 1) : /\ out[j].k = "print"
                        /\ TypeKey(out[j].n) = TypeKey(out[i].n)
                        /\ StartOf(out[j].n) = StartOf(out[i].n)}

\* the nodes a walk from the root handle visits when no read fails
FullWalk == PreOrderTo(Root, IF wcfg.bounded THEN wcfg.max_depth ELSE MaxNodes)

\* C11: within one Element.tree walk with fresh counters the ordinal of a
\* visited node is the number of nodes with the same type key visited
\* earlier in pre-order (0, 1, 2, ... per type key, no gap, no repeat); on
\* a static tree the ordinal is therefore fixed by the node's position in
\* the pre-order of the tree, the same in every walk.
C11_OrdinalsCountEarlier ==
    \A i \in 1..Len(out) :
        out[i].k = "print" =>
            /\ out[i].ord = Cardinality(EarlierSameKey(i))
            /\ (wcfg.entry = "Element.tree" /\ \A j \in 1..(i - 1) : out[j].info # "COMError") =>
                  \E q \in 1..Len(FullWalk) :
                      /\ FullWalk[q] = out[i].n
                      /\ out[i].ord = Cardinality({r \in 1..(q - 1) : TypeKey(FullWalk[r]) = TypeKey(out[i].n)})

\* C29: in one Context.tree() call of the window-handle backend without a
\* start element, which walks every top-level window, the counters persist
\* across the whole walk: no two visited nodes get the same pair of type
\* key and ordinal, also when they belong to different top-level windows.
C29_CountersAcrossWindows ==
    WalksWindows(wcfg) =>
        \A i, j \in 1..Len(out) :
            (i < j /\ out[i].k = "print" /\ out[j].k = "print" /\ TypeKey(out[i].n) = TypeKey(out[j].n))
                => out[i].ord # out[j].ord

\* an Element.tree walk over two type keys has given ordinal 1 to one node
\* after visiting a node of the other type key under ordinal 0
C11_Witness ==
    /\ wcfg.entry = "Element.tree"
    /\ \E i, j \in 1..Len(out) :
          /\ j < i
          /\ out[i].k = "print" /\ out[i].ord = 1
          /\ out[j].k = "print" /\ out[j].ord = 0
          /\ TypeKey(out[j].n) # TypeKey(out[i].n)

\* positions in the output of the renderer calls made for handle n
Renders(n) == {j \in 1..Len(out) : out[j].k = "render" /\ out[j].n = n}

\* C12 as stated: with draw_outline the renderer is called exactly once
\* for every node whose rect read succeeded, zero-width and zero-height
\* rectangles included, with the caller's duration; never for a node
\* whose rect read failed, and never without draw_outline.
C12_OutlineEveryVisited ==
    /\ ~wcfg.draw => \A j \in 1..Len(out) : out[j].k # "render"
    /\ \A i \in 1..Len(out) :
          out[i].k = "print" =>
              IF wcfg.draw /\ out[i].info = "rect"
              THEN Cardinality(Renders(out[i].n)) = 1 /\ \A j \in Renders(out[i].n) : j > i /\ out[j].info = wcfg.dur
              ELSE Renders(out[i].n) = {}

\* C12 (amended): with draw_outline, outline() is entered once for every
\* node whose rect read succeeded, right after its line; the renderer is
\* called exactly once, with the caller's duration, when the rectangle
\* outline() obtained has non-zero width and height, and not at all when
\* it has no area or when that second read failed (the walk then ends
\* with the failure); never for a node whose rect read failed, and never
\* without draw_outline.
C12_OutlineWhenArea ==
    /\ ~wcfg.draw => \A j \in 1..Len(out) : out[j].k \notin {"outline", "render"}
    /\ \A i \in 1..Len(out) :
          /\ out[i].k = "print" =>
                IF wcfg.draw /\ out[i].info = "rect"
                THEN IF i = Len(out)
                     THEN wpc = "raised" /\ werr = "outline_rect"
                     ELSE /\ out[i + 1].k = "outline" /\ out[i + 1].n = out[i].n
                          /\ IF out[i + 1].info = "area"
                             THEN Renders(out[i].n) = {i + 2} /\ out[i + 2].info = wcfg.dur
                             ELSE Renders(out[i].n) = {}
                ELSE \A j \in 1..Len(out) : out[j].n = out[i].n => out[j].k \notin {"outline", "render"}
          /\ out[i].k \in {"outline", "render"} => (i > 1 /\ out[i - 1].n = out[i].n /\ out[i - 1].k \in {"print", "outline"})

\* a walk with draw_outline and a caller-chosen duration has outlined one
\* node, skipped the renderer for a node without area, and drawn nothing
\* for a node whose rect read failed
C12_Witness ==
    /\ wcfg.draw /\ wcfg.dur = "5"
    /\ \E i, j, k \in 1..Len(out) :
          /\ out[i].k = "render"
          /\ out[j].k = "outline" /\ out[j].info = "no_area"
          /\ out[k].k = "print" /\ out[k].info = "COMError"


(* ========================= enumeration machine ========================= *)

\* what the OS reports for an enumerated handle while the callback runs:
\*   dead     : destroyed since it was listed, IsWindow is false
\*   stale    : alive and visible, but get_title_bar_info fails for it
\*   real     : visible, titled, passes is_real_window
\*   untitled : as real, with an empty title
\*   hidden   : IsWindowVisible is false
CandKinds == {"dead", "stale", "real", "untitled", "hidden"}

\* a handle given to Window(hwnd) directly may also be a live child window
HandleKinds == CandKinds \cup {"child"}

\* the handles 1..k the OS enumerates, with what it reports for each
CandLists == UNION {[1..k -> CandKinds] : k \in 0..MaxCand}

\* attributes of the enumerated handle h
CandAttr(h) == CHOOSE e \in TreeElems : e.pid = 1 + ((h \div 2) % 2)

\* user32.IsWindow(hwnd)
IsWindow(kind) == kind # "dead"

\* Window.__init__: the outcome of constructing a Window on a handle
WindowInit(kind, ver) ==
    IF IsWindow(kind) THEN "Window"
    ELSE IF ver = "new" THEN "Exception" ELSE "NotAWindowError"

\* result of one callback invocation
Cb(raised, ret, acc, found) == [raised |-> raised, ret |-> ret, acc |-> acc, found |-> found]

\* callback of Context.windows / windows()
WindowsCallback(h, st) ==
    IF WindowInit(eenv[h], "new") # "Window" THEN Cb(TRUE, FALSE, st.acc, st.found)
    ELSE IF eenv[h] = "hidden" THEN Cb(FALSE, TRUE, st.acc, st.found)
    ELSE IF eenv[h] = "stale" THEN Cb(TRUE, FALSE, st.acc, st.found)
    ELSE Cb(FALSE, TRUE, Append(st.acc, h), st.found)

\* callback of Element.children
ChildrenCallback(h, st) == Cb(FALSE, TRUE, Append(st.acc, h), st.found)

\* callback of Window.top_window
TopWindowCallback(h, st) ==
    IF st.found # 0 THEN Cb(FALSE, FALSE, st.acc, st.found)
    ELSE IF WindowInit(eenv[h], "new") # "Window" THEN Cb(TRUE, FALSE, st.acc, st.found)
    ELSE IF eenv[h] \in {"real", "stale"} THEN Cb(FALSE, FALSE, st.acc, h)
    ELSE Cb(FALSE, TRUE, st.acc, st.found)

Callback(h, st) ==
    CASE st.op = "children" -> ChildrenCallback(h, st)
      [] st.op = "top_window" -> TopWindowCallback(h, st)
      [] OTHER -> WindowsCallback(h, st)

\* the wrapper with an exception ending the enumeration
EnumWrapStop(cb) == IF cb.raised THEN 0 ELSE IF cb.ret THEN 1 ELSE 0

\* _callback of EnumWindows / EnumChildWindows: what the OS gets back
EnumWrap(cb) == IF cb.raised THEN 1 ELSE IF cb.ret THEN 1 ELSE 0

\* the generator read to its end, keeping the last window that satisfies
FindWindowLast(wins, c) ==
    LET m == SelectSeq(wins, LAMBDA h : Satisfies(c, CandAttr(h)))
    IN IF m = <<>> THEN <<>> ELSE <<m[Len(m)]>>

\* next((w for w in self.windows() if w.satisfies(condition)), None)
FindWindow(wins, c) ==
    LET m == SelectSeq(wins, LAMBDA h : Satisfies(c, CandAttr(h)))
    IN IF m = <<>> THEN <<>> ELSE <<m[1]>>

\* the property conditions of a native condition, combined with AND
NativeHolds(c, e) ==
    /\ c.pid # None => c.pid = e.pid
    /\ c.control_id # None => c.control_id = e.control_id
    /\ c.class_name # NoStr => c.class_name = e.class_name
    /\ c.title.kind = "str" => Lower(c.title.v) = Lower(e.title)

\* the children of the desktop element, in the order the engine lists them
DesktopChildren == SelectSeq([h \in 1..Len(eenv) |-> h], LAMBDA h : eenv[h] # "dead")

\* desktop.find_first(condition, scope = Children); <<>> stands for None
UiaFindFirst(c) ==
    LET m == SelectSeq(DesktopChildren, LAMBDA h : NativeHolds(c, CandAttr(h)))
    IN IF m = <<>> THEN <<>> ELSE <<m[1]>>

\* conditions tried by find_window and window
EnumConds ==
    { EmptyCond,
      [EmptyCond EXCEPT !.class_name = "Button"],
      [EmptyCond EXCEPT !.pid = 2],
      [EmptyCond EXCEPT !.pid = 1, !.title = StrTitle(<<"a", "B">>)],
      [EmptyCond EXCEPT !.control_id = 5, !.class_name = "Edit"] }

EnumFrame == UNCHANGED findVars /\ UNCHANGED focusVars /\ UNCHANGED treeVars /\ UNCHANGED searchVars /\ UNCHANGED uia

InitEnum ==
    /\ FindIdle
    /\ FocusIdle
    /\ TreeIdle
    /\ SearchIdle
    /\ UiaIdle
    /\ eenv \in CandLists
    /\ epc = "idle"
    /\ est = NoEnum

\* top_window() of the module and of Context: windows()[0]
First(wins) == IF wins = <<>> THEN <<>> ELSE <<wins[1]>>

\* the subscript raises IndexError on the empty list
FirstOutcome(op, wins) == IF op = "Context.top_window" /\ wins = <<>> THEN "IndexError" ELSE "return"

\* the caller invokes windows(), children(), Window.top_window(),
\* Context.top_window() or find_window(c)
EnumCall(op, c) ==
    /\ epc = "idle"
    /\ est' = [NoEnum EXCEPT !.op = op, !.c = c]
    /\ epc' = IF eenv = <<>> THEN "after" ELSE "enum"
    /\ UNCHANGED eenv
    /\ EnumFrame

\* the OS hands the next handle to the callback
EnumStep ==
    /\ epc = "enum"
    /\ LET cb == Callback(est.i, est)
           ret == EnumWrap(cb)
       IN /\ est' = [est EXCEPT !.acc = cb.acc, !.found = cb.found, !.i = @ + 1,
                                !.seen = Append(@, [h |-> est.i, raised |-> cb.raised, ret |-> ret])]
          /\ epc' = IF ret = 0 \/ est.i = Len(eenv) THEN "after" ELSE "enum"
    /\ UNCHANGED eenv
    /\ EnumFrame

\* the OS call returns: WinError when it reports failure (ok = 0) with a
\* non-zero last error, the collected result otherwise
EnumReturn ==
    /\ epc = "after"
    /\ \E apiErr \in BOOLEAN :
         est' = [est EXCEPT !.outcome = IF apiErr THEN "WinError" ELSE FirstOutcome(est.op, est.acc),
                            !.val = IF apiErr THEN <<>>
                                    ELSE CASE est.op = "top_window" -> (IF est.found = 0 THEN <<>> ELSE <<est.found>>)
                                           [] est.op = "find_window" -> FindWindow(est.acc, est.c)
                                           [] est.op = "Context.top_window" -> First(est.acc)
                                           [] OTHER -> est.acc]
    /\ epc' = "done"
    /\ UNCHANGED eenv
    /\ EnumFrame

\* the caller constructs Window(hwnd) itself
NewWindow(kind, ver) ==
    /\ epc = "idle"
    /\ est' = [NoEnum EXCEPT !.op = "Window", !.ver = ver, !.h = kind, !.outcome = WindowInit(kind, ver)]
    /\ epc' = "done"
    /\ UNCHANGED eenv
    /\ EnumFrame

\* UIAContext.create_condition of the old accessibility backend: the native
\* part of the condition, built from the arguments Python treats as true;
\* a pattern title adds no native condition, only re_pattern
UiaOldNative(c) ==
    [pid |-> IF TruthyInt(c.pid) THEN c.pid ELSE None,
     control_id |-> IF TruthyInt(c.control_id) THEN c.control_id ELSE None,
     class_name |-> IF TruthyStr(c.class_name) THEN c.class_name ELSE NoStr,
     title |-> IF c.title.kind = "str" /\ TruthyTitle(c.title) THEN c.title ELSE NoTitle,
     sentinel |-> FALSE]

\* condition.condition is None: the pattern title was the only argument
UiaOldNoNative(c) == Chained(UiaOldNative(c)) = 0

\* self._native.FindAll(scope, condition.condition) over the desktop's children
UiaOldNativeFindAll(c) == SelectSeq(DesktopChildren, LAMBDA h : NativeHolds(UiaOldNative(c), CandAttr(h)))

\* UIAElement.find_first: with a pattern title the native result is
\* filtered by re.match on CurrentName, otherwise FindFirst is used
UiaOldFindFirst(c) ==
    LET m == IF c.title.kind = "re"
             THEN SelectSeq(UiaOldNativeFindAll(c), LAMBDA h : ReMatch(c.title.v, CandAttr(h).title))
             ELSE UiaOldNativeFindAll(c)
    IN IF m = <<>> THEN <<>> ELSE <<m[1]>>

\* UIAElement.find_all / ifind_all: the native result as it is
UiaOldFindAll(c) == UiaOldNativeFindAll(c)

\* conditions tried by the searches of the old accessibility backend
UiaOldConds ==
    { [EmptyCond EXCEPT !.title = ReTitle(<<"A">>)],
      [EmptyCond EXCEPT !.pid = 1, !.title = ReTitle(<<"A">>)],
      [EmptyCond EXCEPT !.pid = 2, !.title = ReTitle(<<"A">>)],
      [EmptyCond EXCEPT !.class_name = "Button", !.title = ReTitle(<<"a">>)],
      [EmptyCond EXCEPT !.pid = 2, !.title = StrTitle(<<"a", "B">>)] }

\* desktop.find_first / find_all / ifind_all of the old accessibility
\* backend; the engine rejects a null condition
UiaOldSearch(op, c) ==
    /\ epc = "idle"
    /\ est' = [NoEnum EXCEPT !.op = op, !.ver = "old", !.c = c, !.acc = DesktopChildren,
                             !.outcome = IF UiaOldNoNative(c) THEN "COMError" ELSE "return",
                             !.val = IF UiaOldNoNative(c) THEN <<>>
                                     ELSE IF op = "uia.find_first" THEN UiaOldFindFirst(c) ELSE UiaOldFindAll(c)]
    /\ epc' = "done"
    /\ UNCHANGED eenv
    /\ EnumFrame

\* Context.window(condition) of the accessibility backend
UiaWindow(c) ==
    /\ epc = "idle"
    /\ est' = [NoEnum EXCEPT !.op = "window", !.c = c, !.acc = DesktopChildren,
                             !.outcome = IF UiaNative(c) = "native" THEN "return" ELSE UiaNative(c),
                             !.val = IF UiaNative(c) = "native" THEN UiaFindFirst(c) ELSE <<>>]
    /\ epc' = "done"
    /\ UNCHANGED eenv
    /\ EnumFrame

NextEnum ==
    \/ \E c \in EnumConds : UiaWindow(c)
    \/ \E op \in {"uia.find_first", "uia.find_all", "uia.ifind_all"}, c \in UiaOldConds : UiaOldSearch(op, c)
    \/ \E op \in {"windows", "children", "top_window", "Context.top_window"} : EnumCall(op, EmptyCond)
    \/ \E c \in EnumConds : EnumCall("find_window", c)
    \/ EnumStep
    \/ EnumReturn
    \/ \E kind \in HandleKinds, ver \in {"new", "old"} : NewWindow(kind, ver)

SpecEnum == InitEnum /\ [][NextEnum]_vars


(* ======================== properties: enumeration ====================== *)

\* C13: Window(hwnd) on a handle that is not a live top-level window (dead,
\* or a child window) fails with NotAWindowError, and no Window for such a
\* handle is returned or collected into a result list.
C13_NotAWindowRejected ==
    /\ (est.op = "Window" /\ est.h \in {"dead", "child"}) => est.outcome = "NotAWindowError"
    /\ \A k \in 1..Len(est.acc) : est.op \in {"windows", "find_window"} => eenv[est.acc[k]] # "dead"

\* the handles windows() collects, in the order the OS enumerates them
RealOrder == SelectSeq([h \in 1..Len(eenv) |-> h], LAMBDA h : eenv[h] \in {"real", "untitled"})

\* the windows a lookup chooses from, and the test it applies to each
LookupOrder == IF est.op = "find_window" THEN RealOrder ELSE DesktopChildren

LookupSat(h) == IF est.op = "find_window" THEN Satisfies(est.c, CandAttr(h)) ELSE NativeHolds(est.c, CandAttr(h))

EnumOps == {"windows", "children", "top_window", "find_window"}

Failing == {est.seen[k].h : k \in {j \in 1..Len(est.seen) : est.seen[j].raised}}

\* C18: a failure inside an enumeration callback never leaves EnumWindows /
\* EnumChildWindows and counts as continue: the failing candidate is
\* skipped, every later one is delivered, and windows() / children()
\* hold every non-failing candidate (for windows(): every one that passes
\* is_real_window) in enumeration order.
C18_FailuresSkipped ==
    (est.op \in {"windows", "children", "find_window"} /\ epc \in {"after", "done"}) =>
        /\ est.outcome \in {"none", "return", "WinError"}
        /\ Len(est.seen) = Len(eenv)
        /\ \A k \in 1..Len(est.seen) : est.seen[k].h = k
        /\ est.acc = SelectSeq([h \in 1..Len(eenv) |-> h],
                               LAMBDA h : h \notin Failing /\ (est.op = "children" \/ eenv[h] # "hidden"))
        /\ (est.outcome = "return" /\ est.op # "find_window") => est.val = est.acc

\* windows() returned a list that holds a window enumerated after a handle
\* whose construction failed and after one whose is_real_window raised
C18_Witness ==
    /\ est.op = "windows" /\ epc = "done" /\ est.outcome = "return"
    /\ \E i, j, k \in 1..Len(eenv) :
          /\ i < k /\ j < k
          /\ eenv[i] = "dead" /\ eenv[j] = "stale"
          /\ \E q \in 1..Len(est.val) : est.val[q] = k

\* C28: top_window() (module function and Context.top_window) returns the
\* first window of windows(), and returns None without raising when no
\* top-level window passes the is-real-window predicate.
C28_TopWindowOrNone ==
    (est.op = "Context.top_window" /\ epc = "done" /\ est.outcome # "WinError") =>
        /\ est.outcome = "return"
        /\ est.acc # <<>> => est.val = <<est.acc[1]>>
        /\ est.acc = <<>> => est.val = <<>>

\* C24: in the accessibility backend a pattern-based title is re-checked
\* in-process against the name of each candidate in find_first, find_all
\* and ifind_all: no element whose name does not match the pattern is
\* returned, whether the pattern stands alone or with native refinements.
C24_PatternRechecked ==
    (est.op \in {"uia.find_first", "uia.find_all", "uia.ifind_all"} /\ est.c.title.kind = "re") =>
        \A k \in 1..Len(est.val) : ReMatch(est.c.title.v, CandAttr(est.val[k]).title)


(* ============================== Rect.center ============================ *)

Coords == (-MaxCoord)..MaxCoord

\* Rect(left, top, right, bottom) built from a native rectangle
Rects == [left : Coords, top : Coords, right : Coords, bottom : Coords]

Width(r) == r.right - r.left

Height(r) == r.bottom - r.top

\* int(float(w) / 2.0): the quotient truncated toward zero
TruncHalf(w) == IF w >= 0 THEN w \div 2 ELSE -((-w) \div 2)

HasArea(r) == Width(r) # 0 /\ Height(r) # 0

\* the half extent added to the far edge instead of the near one
CenterFromFarEdge(r) == <<r.right + TruncHalf(Width(r)), r.bottom + TruncHalf(Height(r))>>

\* Rect.center as <<x, y>>
Center(r) == <<r.left + TruncHalf(Width(r)), r.top + TruncHalf(Height(r))>>

\* Rect.mid_point of the old revision: it assigns to the fields of
\* self._mid_point, an attribute __init__ declares without creating it
MidPoint(r) == "AttributeError"

InitRect ==
    /\ FindIdle
    /\ FocusIdle
    /\ TreeIdle
    /\ EnumIdle
    /\ SearchIdle
    /\ UiaIdle

\* rect.center
DoCenter(r) ==
    /\ res.op = "none"
    /\ res' = [op |-> "center", start |-> None, elem |-> r, val |-> Center(r)]
    /\ UNCHANGED <<par, rev, attr, cond>>
    /\ UNCHANGED focusVars
    /\ UNCHANGED treeVars
    /\ UNCHANGED enumVars
    /\ UNCHANGED searchVars
    /\ UNCHANGED uia

\* rect.mid_point (old revision)
DoMidPoint(r) ==
    /\ res.op = "none"
    /\ res' = [op |-> "mid_point", start |-> None, elem |-> r, val |-> <<MidPoint(r)>>]
    /\ UNCHANGED <<par, rev, attr, cond>>
    /\ UNCHANGED focusVars
    /\ UNCHANGED treeVars
    /\ UNCHANGED enumVars
    /\ UNCHANGED searchVars
    /\ UNCHANGED uia

NextRect == \E r \in Rects : DoCenter(r) \/ DoMidPoint(r)

SpecRect == InitRect /\ [][NextRect]_vars

\* the point is the rectangle's near corner plus the truncated half extents
\* and lies within the rectangle's bounds
CenterWithin(r, p) ==
    /\ p = <<r.left + TruncHalf(r.right - r.left), r.top + TruncHalf(r.bottom - r.top)>>
    /\ r.left <= p[1] /\ p[1] <= r.right
    /\ r.top <= p[2] /\ p[2] <= r.bottom

\* C16 as stated: for every rectangle with non-zero width and height,
\* rectangles with right < left or bottom < top and negative coordinates
\* included, center is (left + trunc(width / 2), top + trunc(height / 2))
\* and lies within [left, right] x [top, bottom].
C16_CenterWithinAnyRect ==
    (res.op = "center" /\ HasArea(res.elem)) => CenterWithin(res.elem, res.val)

\* C16 (amended): for every rectangle with right > left and bottom > top,
\* negative coordinates included, center is (left + trunc(width / 2),
\* top + trunc(height / 2)) and lies within [left, right] x [top, bottom].
C16_CenterWithinOrderedRect ==
    (res.op = "center" /\ res.elem.right > res.elem.left /\ res.elem.bottom > res.elem.top)
        => CenterWithin(res.elem, res.val)

\* center was taken of a rectangle of odd width and height that lies in
\* negative coordinates
C16_Witness ==
    /\ res.op = "center"
    /\ res.elem.right > res.elem.left /\ res.elem.bottom > res.elem.top
    /\ res.elem.right < 0 /\ res.elem.bottom < 0
    /\ Width(res.elem) % 2 = 1 /\ Height(res.elem) % 2 = 1


(* ======================= stepwise search machine ======================= *)

\* the interpreter's recursion limit, in frames of the search; it lies
\* above the height of every tree without a repeated handle
MaxFrames == MaxNodes + 3

\* children() of handle n: its child handles, then the handle listed again
SChildren(n) == Children(n) \o (IF sloop # <<>> /\ sloop[1] = n THEN <<sloop[2]>> ELSE <<>>)

\* conditions tried by the stepwise search
SearchConds == {EmptyCond, [EmptyCond EXCEPT !.class_name = "Edit"]}

SearchFrame == UNCHANGED focusVars /\ UNCHANGED treeVars /\ UNCHANGED enumVars /\ UNCHANGED uia

InitSearch ==
    /\ par \in TreeShapes
    /\ rev = FALSE
    /\ attr \in TreeAttrs
    /\ cond \in SearchConds
    /\ res = NoRes
    /\ FocusIdle
    /\ TreeIdle
    /\ EnumIdle
    /\ UiaIdle
    /\ sloop \in {<<>>} \cup {e \in Nodes \X Nodes : e[2] = e[1] \/ e[2] \in AncSet(e[1])}
    /\ spc = "idle"
    /\ sstack = <<>>

\* root.find_first(cond) / root.find_all(cond) / root.ifind_all(cond)
SearchCall(op) ==
    /\ spc = "idle"
    /\ spc' = "run"
    /\ sstack' = <<[n |-> Root, i |-> 1]>>
    /\ res' = [op |-> op, start |-> Root, elem |-> attr[Root], val |-> <<>>]
    /\ UNCHANGED <<par, rev, attr, cond, sloop>>
    /\ SearchFrame

\* one turn of `for child in element.children()` in the innermost call:
\* the loop ends and the call returns, or the child is tested and the
\* search recurses into it
SearchStep ==
    /\ spc = "run"
    /\ LET top == sstack[Len(sstack)]
           kids == SChildren(top.n)
       IN IF top.i > Len(kids)
          THEN /\ sstack' = SubSeq(sstack, 1, Len(sstack) - 1)
               /\ spc' = IF Len(sstack) = 1 THEN "done" ELSE "run"
               /\ UNCHANGED res
          ELSE LET child == kids[top.i]
                   hit == Matches(cond, attr[child])
               IN IF res.op = "find_first" /\ hit
                  THEN /\ res' = [res EXCEPT !.val = <<child>>]
                       /\ sstack' = <<>>
                       /\ spc' = "done"
                  ELSE /\ res' = [res EXCEPT !.val = IF hit THEN Append(@, child) ELSE @]
                       /\ IF Len(sstack) = MaxFrames
                          THEN spc' = "RecursionError" /\ UNCHANGED sstack
                          ELSE /\ spc' = "run"
                               /\ sstack' = Append([sstack EXCEPT ![Len(sstack)].i = @ + 1], [n |-> child, i |-> 1])
    /\ UNCHANGED <<par, rev, attr, cond, sloop>>
    /\ SearchFrame

NextSearch ==
    \/ \E op \in {"find_first", "find_all", "ifind_all"} : SearchCall(op)
    \/ SearchStep

SpecSearch == InitSearch /\ [][NextSearch]_vars

\* C23: find_first, find_all and ifind_all terminate on every input, also
\* when children() of a handle lists that handle or one of its ancestors:
\* the search never descends into a handle it is already searching, so it
\* never runs into the recursion limit.
C23_SearchTerminates ==
    /\ spc # "RecursionError"
    /\ \A i, j \in 1..Len(sstack) : i < j => sstack[i].n # sstack[j].n


(* ===================== the UIA singleton (accessibility) ================ *)
(* uia.inst is UIA._instance (0 for None); instances are numbered in the   *)
(* order CoCreateInstance makes them. uia.true_of is the instance that     *)
(* made TRUE_CONDITION. uia.log records every operation: the instance      *)
(* current after it, whether the operation created it, and for a search    *)
(* the instance that made the condition handed to the engine.              *)

UiaFrame ==
    /\ UNCHANGED <<par, rev, attr, cond, res>>
    /\ UNCHANGED focusVars
    /\ UNCHANGED treeVars
    /\ UNCHANGED enumVars
    /\ UNCHANGED searchVars

InitUia ==
    /\ FindIdle
    /\ FocusIdle
    /\ TreeIdle
    /\ EnumIdle
    /\ SearchIdle
    /\ UiaIdle

\* UIA.instance: creates the instance when there is none
UiaGet(u) == IF u.inst = 0 THEN [u EXCEPT !.inst = u.made + 1, !.made = u.made + 1] ELSE u

\* UIA.release
UiaDrop(u) == IF u.inst = 0 THEN u ELSE [u EXCEPT !.inst = 0]

UiaEv(op, before, after, src) ==
    [op |-> op, inst |-> after.inst, fresh |-> after.made # before.made, src |-> src]

\* import of the module: TRUE_CONDITION = Condition(_native=UIA().instance().CreateTrueCondition())
UiaImport ==
    /\ ~uia.loaded
    /\ LET u == UiaGet(uia)
       IN uia' = [u EXCEPT !.loaded = TRUE, !.true_of = u.inst,
                           !.log = Append(uia.log, UiaEv("import", uia, u, 0))]
    /\ UiaFrame

\* Context.uia
UiaInstance ==
    /\ uia.loaded
    /\ Len(uia.log) < MaxUiaOps
    /\ LET u == UiaGet(uia)
       IN uia' = [u EXCEPT !.log = Append(uia.log, UiaEv("instance", uia, u, 0))]
    /\ UiaFrame

\* Context.__exit__
UiaRelease ==
    /\ uia.loaded
    /\ Len(uia.log) < MaxUiaOps
    /\ LET u == UiaDrop(uia)
       IN uia' = [u EXCEPT !.log = Append(uia.log, UiaEv("release", uia, u, 0))]
    /\ UiaFrame

\* Context.desktop.children(): find_all(TRUE_CONDITION, Scope.Children)
UiaChildren ==
    /\ uia.loaded
    /\ Len(uia.log) < MaxUiaOps
    /\ LET u == UiaGet(uia)
       IN uia' = [u EXCEPT !.log = Append(uia.log, UiaEv("children", uia, u, u.true_of))]
    /\ UiaFrame

\* Context.windows(): find_all(Condition().control_type(Window), Scope.Children)
UiaWindows ==
    /\ uia.loaded
    /\ Len(uia.log) < MaxUiaOps
    /\ LET u == UiaGet(uia)
       IN uia' = [u EXCEPT !.log = Append(uia.log, UiaEv("windows", uia, u, u.inst))]
    /\ UiaFrame

NextUia ==
    \/ UiaImport
    \/ UiaInstance
    \/ UiaRelease
    \/ UiaChildren
    \/ UiaWindows

SpecUia == InitUia /\ [][NextUia]_vars

(* ---------------------------- properties ------------------------------- *)

UiaUses == {"instance", "children", "windows"}

\* no release between the operations i and j of the log
NoReleaseBetween(i, j) == \A k \in i..j : uia.log[k].op # "release"

\* the instance is created by a use, not by the import
CreatedByUse(i) == uia.log[i].fresh => uia.log[i].op \in UiaUses

\* the uses that follow a use with no release in between get its instance
SameUntilRelease(i) ==
    \A j \in i..Len(uia.log) :
        (uia.log[i].op \in UiaUses /\ uia.log[j].op \in UiaUses /\ NoReleaseBetween(i, j))
            => uia.log[j].inst = uia.log[i].inst /\ (j > i => ~uia.log[j].fresh)

\* a release leaves no instance and creates none
ReleaseDrops(i) == uia.log[i].op = "release" => uia.log[i].inst = 0 /\ ~uia.log[i].fresh

\* a search hands the engine objects made by the current instance
SearchUsesCurrent(i) == uia.log[i].op \in {"children", "windows"} => uia.log[i].src = uia.log[i].inst

\* C25: the engine instance goes not-created -> created -> released: it is
\* created only by the first use, not earlier; every use between a
\* creation and the next release gets the same instance; a release with no
\* instance changes nothing; and after a release no search uses an object
\* that the released instance made.
C25_EngineLifecycle ==
    \A i \in 1..Len(uia.log) :
        /\ CreatedByUse(i)
        /\ SameUntilRelease(i)
        /\ ReleaseDrops(i)
        /\ SearchUsesCurrent(i)

====
